---- MODULE Spec2Model ----
(***************************************************************************)
(* Dr-Scheduler: the calendar segmenter, the availability oracle and the   *)
(* CP-SAT scheduling engine (models/calendar.py, config/managers.py,       *)
(* models/math_schedule.py).                                               *)
(*                                                                         *)
(* Dates are day numbers; day 0 is a Monday, so weekday(d) = d % 7 with    *)
(* 0 = Monday ... 6 = Sunday, as datetime.date.weekday().                  *)
(***************************************************************************)
EXTENDS Integers, Sequences, FiniteSets, TLC

VARIABLES
    start_date,              \* Calendar.start_date
    end_date,                \* Calendar.end_date
    holidays,                \* Calendar.holidays (a list)
    working_days,            \* Calendar.working_days (a list)
    weekend_days,            \* Calendar.weekend_days (a list)
    call_days,               \* Calendar.call_days (a list)
    physicians,              \* PhysicianManager.data['physicians'] (names, in insertion order)
    initials,                \* the initials of PhysicianManager.data['physicians'], in the same order
    add_error,               \* the exception that ended the last registration of a physician
    sweep,                   \* the two lists given to _create_mutually_exclusive_math_tasks_constraints, and what the call did
    periods,                 \* what the last direct call of Calendar.determine_periods returned, with the calendar it was made on
    loaded_calendar,         \* what the last Calendar.load_calendar ended with
    calendar_file,           \* the documents save_calendar wrote to calendar.json (the last one is the file)
    region,                  \* Calendar.region
    link_error,              \* the exception that ended the last link_tasks call
    unavailability_periods,  \* PhysicianManager.unavailability_periods
    unavailability_error,    \* the exception that ended the last call that sets or adds unavailability
    tasks,                   \* TaskManager.data['tasks'] (in insertion order)
    links,                   \* LinkageManager.links
    scheduling_period,       \* MathSchedule.scheduling_period
    schedule,                \* MathSchedule.schedule
    math_tasks,              \* MathSchedule.math_tasks
    y_value,                 \* the y variables the solver of the last call set to 1
    status,                  \* how the last generate_schedule call ended
    calls                    \* number of generate_schedule calls so far

vars == << start_date, end_date, holidays, working_days, weekend_days, call_days,
           physicians, initials, add_error, sweep, periods, loaded_calendar, calendar_file, region, link_error, unavailability_periods,
           unavailability_error, tasks, links,
           scheduling_period, schedule, math_tasks, y_value, status, calls >>

calendar_vars == << start_date, end_date, holidays, working_days, weekend_days, call_days >>
config_vars == << physicians, initials, add_error, sweep, periods, loaded_calendar, calendar_file, region, link_error, tasks, links, scheduling_period >>
solve_vars == << schedule, math_tasks, y_value, status, calls >>

-----------------------------------------------------------------------------
(* Lists *)

InSeq(x, s) == \E i \in 1..Len(s) : s[i] = x

Range(s) == { s[i] : i \in 1..Len(s) }

Min(S) == CHOOSE x \in S : \A z \in S : x <= z

Max(S) == CHOOSE x \in S : \A z \in S : x >= z

\* sorted(set): the elements of S in increasing order
RECURSIVE SortedSeq(_)
SortedSeq(S) == IF S = {} THEN << >> ELSE << Min(S) >> \o SortedSeq(S \ {Min(S)})

\* list.remove(x): drops the first occurrence of x
RemoveFirst(s, x) ==
    LET i == CHOOSE k \in 1..Len(s) : s[k] = x /\ \A m \in 1..(k - 1) : s[m] # x
    IN  SubSeq(s, 1, i - 1) \o SubSeq(s, i + 1, Len(s))

\* list.sort() for a list of dates without duplicates
SortDates(s) == SortedSeq(Range(s))

weekday(d) == d % 7

\* a dictionary with the key set to the value
SetItem(map, key, value) == [n \in DOMAIN map \cup { key } |-> IF n = key THEN value ELSE map[n]]

\* dict.pop(key, None)
Pop(map, key) == [n \in DOMAIN map \ { key } |-> map[n]]

-----------------------------------------------------------------------------
(* Calendar *)

RECURSIVE get_working_days(_, _, _)
get_working_days(current_date, last, hol) ==
    IF current_date > last THEN << >>
    ELSE (IF weekday(current_date) < 5 /\ ~InSeq(current_date, hol)
          THEN << current_date >> ELSE << >>)
         \o get_working_days(current_date + 1, last, hol)

RECURSIVE get_weekend_days(_, _)
get_weekend_days(current_date, last) ==
    IF current_date > last THEN << >>
    ELSE (IF weekday(current_date) >= 5 THEN << current_date >> ELSE << >>)
         \o get_weekend_days(current_date + 1, last)

get_call_days(weekend, hol) == SortedSeq(Range(weekend) \cup Range(hol))

Cal == [start_date |-> start_date, end_date |-> end_date,
        working_days |-> working_days, call_days |-> call_days]

\* the state of determine_periods: the periods appended so far (each with the
\* week key it is listed under), the list object call_period, the position in
\* periods of the entry whose 'days' is that same list object (0 when none
\* is), and added_call_periods
AddSingleCallPeriod(st, week_start, days, whole) ==
    IF days[1] \in st.added THEN st
    ELSE [st EXCEPT !.periods = Append(@, [week |-> week_start, type |-> "CALL", days |-> days]),
                    !.added = @ \cup {days[1]},
                    !.alias = IF whole THEN Len(st.periods) + 1 ELSE @]

AddCallPeriods(st, ws) ==
    LET cp == st.call_period
        week_start == IF weekday(cp[1]) < 5 THEN cp[1] - weekday(cp[1]) ELSE ws
        mid_point == Len(cp) \div 2
    IN  IF Len(cp) >= 4
        THEN AddSingleCallPeriod(
                 AddSingleCallPeriod(st, week_start, SubSeq(cp, 1, mid_point), FALSE),
                 week_start, SubSeq(cp, mid_point + 1, Len(cp)), FALSE)
        ELSE AddSingleCallPeriod(st, week_start, cp, TRUE)

\* an append to a list that no entry of periods shares
AppendToCopy(st, day) == [st EXCEPT !.call_period = Append(@, day)]

\* call_period.append(day): the list grows in place, and with it the entry of
\* periods that holds the same list
AppendCallDay(st, day) ==
    LET cp == Append(st.call_period, day)
    IN  [st EXCEPT !.call_period = cp,
                   !.periods = IF st.alias = 0 THEN @
                               ELSE [@ EXCEPT ![st.alias].days = cp]]

\* a scan that lets a main period run on over the days that are not working days
RECURSIVE MainScanNoFlush(_, _, _, _, _)
MainScanNoFlush(cal, ps, ws, i, main_period) ==
    IF i > 6 \/ ws + i > cal.end_date
    THEN IF main_period # << >>
         THEN Append(ps, [week |-> ws, type |-> "MAIN", days |-> main_period])
         ELSE ps
    ELSE MainScanNoFlush(cal, ps, ws, i + 1,
                         IF InSeq(ws + i, cal.working_days)
                         THEN Append(main_period, ws + i) ELSE main_period)

RECURSIVE MainScan(_, _, _, _, _)
MainScan(cal, ps, ws, i, main_period) ==
    LET day == ws + i
        flushed == IF main_period # << >>
                   THEN Append(ps, [week |-> ws, type |-> "MAIN", days |-> main_period])
                   ELSE ps
    IN  IF i > 6 \/ day > cal.end_date THEN flushed
        ELSE IF InSeq(day, cal.working_days)
             THEN MainScan(cal, ps, ws, i + 1, Append(main_period, day))
             ELSE MainScan(cal, flushed, ws, i + 1, << >>)

RECURSIVE CallScan(_, _, _, _)
CallScan(cal, st, ws, i) ==
    LET day == ws + i
    IN  IF i > 6 \/ day > cal.end_date
        THEN IF st.call_period # << >> THEN AddCallPeriods(st, ws) ELSE st
        ELSE IF InSeq(day, cal.call_days)
             THEN CallScan(cal, AppendCallDay(st, day), ws, i + 1)
             ELSE IF st.call_period # << >>
                  THEN CallScan(cal, [AddCallPeriods(st, ws) EXCEPT !.call_period = << >>, !.alias = 0],
                                ws, i + 1)
                  ELSE CallScan(cal, st, ws, i + 1)

RECURSIVE WeekLoop(_, _, _)
WeekLoop(cal, st, current_date) ==
    IF current_date > cal.end_date THEN st
    ELSE LET week_start == current_date - weekday(current_date)
             st1 == [st EXCEPT !.periods = MainScan(cal, st.periods, week_start, 0, << >>)]
         IN  WeekLoop(cal, CallScan(cal, st1, week_start, 0), week_start + 7)

\* the entries of the returned dict, in the order they were appended
determine_periods(cal) ==
    WeekLoop(cal, [periods |-> << >>, call_period |-> << >>, alias |-> 0, added |-> {}],
             cal.start_date).periods

\* dict order: the keys in the order of their first entry
RECURSIVE WeekKeys(_)
WeekKeys(ps) ==
    IF ps = << >> THEN << >>
    ELSE LET front == WeekKeys(SubSeq(ps, 1, Len(ps) - 1))
             k == ps[Len(ps)].week
         IN  IF InSeq(k, front) THEN front ELSE Append(front, k)

WeekPeriods(ps, k) == SelectSeq(ps, LAMBDA p : p.week = k)

-----------------------------------------------------------------------------
(* Tasks and linkage *)

TaskCategory(name, days_parameter, number_of_weeks) ==
    [name |-> name, days_parameter |-> days_parameter, number_of_weeks |-> number_of_weeks]

Task(category, task_type, name, week_offset, heaviness, mandatory) ==
    [category |-> category.name, days_parameter |-> category.days_parameter,
     type |-> task_type, name |-> name, week_offset |-> week_offset,
     heaviness |-> heaviness, mandatory |-> mandatory,
     number_of_weeks |-> IF task_type = "Call" THEN 1 ELSE category.number_of_weeks]

\* LinkageManager.get_linked_call: the linked call task's name, or "None"
get_linked_call(task) == IF task.name \in DOMAIN links THEN links[task.name] ELSE "None"

-----------------------------------------------------------------------------
(* Availability oracle *)

OnDate(d) == [kind |-> "date", start |-> d, end |-> d]

DateRange(a, b) == [kind |-> "range", start |-> a, end |-> b]

is_unavailable(name, check_date) ==
    /\ name \in DOMAIN unavailability_periods
    /\ \E i \in 1..Len(unavailability_periods[name]) :
          LET period == unavailability_periods[name][i]
          IN  IF period.kind = "date" THEN check_date = period.start
              ELSE period.start <= check_date /\ check_date <= period.end

_get_available_physicians(days) ==
    SelectSeq(physicians, LAMBDA p : \A i \in 1..Len(days) : ~is_unavailable(p, days[i]))

_get_all_physicians == physicians

-----------------------------------------------------------------------------
(* Physician registry. A given name and a family name are lists of letters; *)
(* desired_working_weeks is in hundredths (0.75 is 75).                     *)

ALLOWED_WORKING_WEEKS == { 0, 25, 50, 75, 100 }

\* Physician.__init__: the exception it raises, "None" when it raises none
PhysicianRaises(desired_working_weeks) ==
    IF desired_working_weeks \notin ALLOWED_WORKING_WEEKS THEN "ValueError" ELSE "None"

\* Physician.__init__: the object, with the preferred tasks cut to the top 3
Physician(who, preferred_tasks, desired_working_weeks, restricted_tasks, exclusion_tasks) ==
    [first_name |-> who.first_name, last_name |-> who.last_name, name |-> who.name,
     initials |-> << >>,
     preferred_tasks |-> SubSeq(preferred_tasks, 1, Min({3, Len(preferred_tasks)})),
     desired_working_weeks |-> desired_working_weeks,
     restricted_tasks |-> restricted_tasks,
     exclusion_tasks |-> exclusion_tasks]

\* the keys of TaskManager.data['categories']: the categories of the tasks
task_categories == { tasks[i].category : i \in 1..Len(tasks) }

\* _validate_physician: the exception it raises, "None" when it raises none
_validate_physician(physician) ==
    IF \/ \E i \in 1..Len(physician.preferred_tasks) :
             physician.preferred_tasks[i] \notin task_categories
       \/ \E i \in 1..Len(physician.restricted_tasks) :
             physician.restricted_tasks[i] \notin task_categories
       \/ \E i \in 1..Len(physician.exclusion_tasks) :
             physician.exclusion_tasks[i] \notin task_categories
       \/ ~(0 < physician.desired_working_weeks /\ physician.desired_working_weeks <= 100)
    THEN "ValueError"
    ELSE "None"

\* _set_initials among physicians with the initials registered: the initials
\* given, or the IndexError of first_name[1] on a one-letter given name
_set_initials(registered, physician) ==
    LET two == << physician.first_name[1], physician.last_name[1] >>
    IN  IF ~InSeq(two, registered) THEN [raises |-> "None", initials |-> two]
        ELSE IF Len(physician.first_name) < 2 THEN [raises |-> "IndexError", initials |-> << >>]
        ELSE [raises |-> "None",
              initials |-> << physician.first_name[1], physician.first_name[2],
                              physician.last_name[1] >>]

-----------------------------------------------------------------------------
(* Interval materializer *)

RECURSIVE Flatten(_)
Flatten(ss) == IF ss = << >> THEN << >> ELSE Head(ss) \o Flatten(Tail(ss))

_extend_scheduling_period ==
    scheduling_period[2] + 7 * Max({ tasks[i].number_of_weeks : i \in 1..Len(tasks) })

_filter_relevant_periods(ps, last) == SelectSeq(ps, LAMBDA p : p.week <= last)

\* _get_periods_days: the 'days' of the periods of one type
PeriodsDays(week_periods, type) ==
    LET sel == SelectSeq(week_periods, LAMBDA p : p.type = type)
    IN  [i \in 1..Len(sel) |-> sel[i].days]

MathTask(task, week_start, index, days) ==
    [name |-> task.name, task_type |-> task.type, index |-> index, week_start |-> week_start,
     days |-> days, start_date |-> days[1], end_date |-> days[Len(days)],
     number_of_weeks |-> task.number_of_weeks,
     available_physicians |-> _get_available_physicians(days),
     heaviness |-> task.heaviness, mandatory |-> task.mandatory]

\* the list math_tasks[task.name][week_start]
WeekMathTasks(task, week_start, week_periods) ==
    LET periods_days == PeriodsDays(week_periods, IF task.type = "Main" THEN "MAIN" ELSE "CALL")
    IN  [i \in 1..Len(periods_days) |-> MathTask(task, week_start, i - 1, periods_days[i])]

IsDiscontinuous(task) == task.days_parameter = "Discontinuous"

\* the position of the first task that _math_create_variables rejects, 0 when
\* there is none
FirstUnsupported ==
    IF \E i \in 1..Len(tasks) : IsDiscontinuous(tasks[i])
    THEN Min({ i \in 1..Len(tasks) : IsDiscontinuous(tasks[i]) })
    ELSE 0

\* self.math_tasks after _math_create_variables ran to its end:
\* math_tasks[name] lists, week key by week key, the MathTasks of the task
_math_create_variables(ps) ==
    LET keys == WeekKeys(ps)
    IN  [name \in { tasks[i].name : i \in 1..Len(tasks) } |->
            LET task == tasks[CHOOSE i \in 1..Len(tasks) : tasks[i].name = name]
            IN  [w \in 1..Len(keys) |->
                    [week_start |-> keys[w],
                     list |-> WeekMathTasks(task, keys[w], WeekPeriods(ps, keys[w]))]]]

\* self.math_tasks when _math_create_variables raised in the first week, at
\* the task in position bad
PartialMathTasks(ps, bad) ==
    LET keys == WeekKeys(ps)
    IN  [name \in { tasks[i].name : i \in 1..Len(tasks) } |->
            LET i == CHOOSE k \in 1..Len(tasks) : tasks[k].name = name
            IN  IF i < bad
                THEN << [week_start |-> keys[1],
                         list |-> WeekMathTasks(tasks[i], keys[1], WeekPeriods(ps, keys[1]))] >>
                ELSE IF i = bad THEN << [week_start |-> keys[1], list |-> << >>] >>
                ELSE << >>]

\* _get_all_math_tasks_per_task: the MathTasks of one task over all weeks
AllMathTasks(mt, name) == Flatten([w \in 1..Len(mt[name]) |-> mt[name][w].list])

\* the key of a y variable
y_var(M, physician) == << M.name, M.start_date, M.end_date, physician >>

\* the keys of self.y, in the order the variables are created
YVars(mt) ==
    LET nweeks == IF tasks = << >> THEN 0 ELSE Len(mt[tasks[1].name])
    IN  Flatten([w \in 1..nweeks |->
          Flatten([t \in 1..Len(tasks) |->
            Flatten([m \in 1..Len(mt[tasks[t].name][w].list) |->
              [q \in 1..Len(physicians) |->
                  y_var(mt[tasks[t].name][w].list[m], physicians[q])]])])])

-----------------------------------------------------------------------------
(* Constraint builder: the linear constraints added to the CP model.       *)
(* With a = the number of variables of v set to 1 and b that of w:         *)
(*   "zero": a = 0, "atleast1": a >= 1, "equal": a = b, "atmost1": a <= 1,  *)
(*   "lesseq": a <= b                                                     *)

Con(kind, v, w) == [kind |-> kind, v |-> v, w |-> w]

Zero(y) == Con("zero", {y}, {})

AtLeastOne(ys) == Con("atleast1", ys, {})

Equal(y1, y2) == Con("equal", {y1}, {y2})

AtMostOne(ys) == Con("atmost1", ys, {})

LessEq(y, ys) == Con("lesseq", {y}, ys)

TaskNames == { tasks[i].name : i \in 1..Len(tasks) }

MathTaskSet(mt) == UNION { Range(AllMathTasks(mt, name)) : name \in TaskNames }

\* a builder that adds no availability constraint
NoAvailabilityConstraints(mt) == {}

_math_create_physician_availability_constraints(mt) ==
    UNION { { Zero(y_var(M, p)) : p \in Range(physicians) \ Range(M.available_physicians) } :
            M \in MathTaskSet(mt) }

\* a builder that adds no coverage constraint
NoMandatoryConstraints(mt) == {}

_math_create_mandatory_task_constraints(mt) ==
    { AtLeastOne({ y_var(M, p) : p \in Range(M.available_physicians) }) :
      M \in { N \in MathTaskSet(mt) : N.mandatory } }

\* a builder that leaves the MathTasks of a bundle unbound
NoBundleConstraints(M) == {}

create_math_tasks_bundle_constraints(M) ==
    { Equal(y_var(M[i], p), y_var(M[i + 1], p)) :
      i \in 1..(Len(M) - 1), p \in Range(physicians) }

\* a builder that puts no limit on the CALL MathTasks of a bundle
NoCallLimit(C) == {}

limit_number_of_call_math_tasks(C) ==
    { AtMostOne({ y_var(C[j], p) : j \in 1..Len(C) }) : p \in Range(physicians) }

\* the number of leading CALL MathTasks of C that start on or before the date:
\* the loop stops at the first one that starts later
RECURSIVE EarlyCalls(_, _, _)
EarlyCalls(C, j, first_possible_call_date) ==
    IF j > Len(C) \/ C[j].start_date > first_possible_call_date THEN j - 1
    ELSE EarlyCalls(C, j + 1, first_possible_call_date)

\* a linkage whose veto reaches to the end of the last MAIN MathTask
LinkAfterLastMain(M, C) ==
    { Zero(y_var(C[j], p)) : j \in 1..EarlyCalls(C, 1, M[Len(M)].end_date), p \in Range(physicians) }
    \cup { LessEq(y_var(M[i], p), { y_var(C[j], p) : j \in 1..Len(C) }) :
           i \in (IF Len(C) > 0 THEN 1..Len(M) ELSE {}), p \in Range(physicians) }
    \cup { LessEq(y_var(C[j], p), { y_var(M[i], p) : i \in 1..Len(M) }) :
           j \in 1..Len(C), p \in Range(physicians) }

\* called with a non-empty M (M[0] raises IndexError otherwise)
link_main_and_call_math_tasks(M, C) ==
    LET early == EarlyCalls(C, 1, M[1].end_date)
    IN  { Zero(y_var(C[j], p)) : j \in 1..early, p \in Range(physicians) }
        \cup { LessEq(y_var(M[i], p), { y_var(C[j], p) : j \in 1..Len(C) }) :
               i \in (IF Len(C) > 0 THEN 1..Len(M) ELSE {}), p \in Range(physicians) }
        \cup { LessEq(y_var(C[j], p), { y_var(M[i], p) : i \in 1..Len(M) }) :
               j \in 1..Len(C), p \in Range(physicians) }

\* the bundles of a MAIN task that reach the constraint functions: the loop
\* over the weeks hands over the MAIN MathTasks M and the linked CALL
\* MathTasks C each time number_of_weeks_left reaches 0
RECURSIVE BundleLoop(_, _, _, _, _, _, _)
BundleLoop(mt, task, w, number_of_weeks_left, bundled_main_tasks, bundled_call_tasks, done) ==
    IF w > Len(mt[task.name]) THEN done
    ELSE LET linked == get_linked_call(task)
             M == bundled_main_tasks \o mt[task.name][w].list
             C == IF linked # "None" THEN bundled_call_tasks \o mt[linked][w].list
                  ELSE bundled_call_tasks
         IN  IF number_of_weeks_left - 1 = 0
             THEN BundleLoop(mt, task, w + 1, task.number_of_weeks, << >>, << >>,
                             Append(done, [M |-> M, C |-> C,
                                           weeks |-> { mt[task.name][k].week_start :
                                                       k \in (w - task.number_of_weeks + 1)..w }]))
             ELSE BundleLoop(mt, task, w + 1, number_of_weeks_left - 1, M, C, done)

\* bundles that start week_offset weeks after the first relevant week
BundlesFromOffset(mt, task) ==
    BundleLoop(mt, task, 1 + task.week_offset, task.number_of_weeks, << >>, << >>, << >>)

Bundles(mt, task) == BundleLoop(mt, task, 1, task.number_of_weeks, << >>, << >>, << >>)

MainTasks == { tasks[i] : i \in { k \in 1..Len(tasks) : tasks[k].type = "Main" } }

\* link_main_and_call_math_tasks reads M[0]: IndexError for a linked MAIN task
\* with a bundle that holds no MAIN MathTask
LinkRaises(mt) ==
    \E task \in MainTasks :
        /\ get_linked_call(task) # "None"
        /\ \E b \in 1..Len(Bundles(mt, task)) : Bundles(mt, task)[b].M = << >>

TaskBundleConstraints(mt, task) ==
    LET bs == Bundles(mt, task)
    IN  UNION { create_math_tasks_bundle_constraints(bs[b].M)
                \cup (IF get_linked_call(task) # "None"
                      THEN limit_number_of_call_math_tasks(bs[b].C)
                           \cup link_main_and_call_math_tasks(bs[b].M, bs[b].C)
                      ELSE {}) :
                b \in 1..Len(bs) }

_math_create_call_linked_to_main_tasks_constraints(mt) ==
    UNION { TaskBundleConstraints(mt, task) : task \in MainTasks }

\* a sweep that, after two MathTasks that intersect, goes on to the next of both lists
RECURSIVE SweepAdvancingBoth(_, _, _, _)
SweepAdvancingBoth(A, B, i, j) ==
    IF i > Len(A) \/ j > Len(B) THEN {}
    ELSE LET lo == Max({A[i].start_date, B[j].start_date})
             hi == Min({A[i].end_date, B[j].end_date})
         IN  IF lo <= hi
             THEN { AtMostOne({ y_var(A[i], p), y_var(B[j], p) }) : p \in Range(physicians) }
                  \cup SweepAdvancingBoth(A, B, i + 1, j + 1)
             ELSE IF A[i].end_date < B[j].end_date
                  THEN SweepAdvancingBoth(A, B, i + 1, j)
                  ELSE SweepAdvancingBoth(A, B, i, j + 1)

\* the two-pointer sweep over two lists of MathTasks
RECURSIVE _create_mutually_exclusive_math_tasks_constraints(_, _, _, _)
_create_mutually_exclusive_math_tasks_constraints(A, B, i, j) ==
    IF i > Len(A) \/ j > Len(B) THEN {}
    ELSE LET lo == Max({A[i].start_date, B[j].start_date})
             hi == Min({A[i].end_date, B[j].end_date})
         IN  (IF lo <= hi
              THEN { AtMostOne({ y_var(A[i], p), y_var(B[j], p) }) : p \in Range(physicians) }
              ELSE {})
             \cup (IF A[i].end_date < B[j].end_date
                   THEN _create_mutually_exclusive_math_tasks_constraints(A, B, i + 1, j)
                   ELSE _create_mutually_exclusive_math_tasks_constraints(A, B, i, j + 1))

_math_create_non_simultaneous_tasks(mt) ==
    UNION { UNION { _create_mutually_exclusive_math_tasks_constraints(
                        AllMathTasks(mt, tasks[i].name), AllMathTasks(mt, tasks[j].name), 1, 1) :
                    j \in (i + 1)..Len(tasks) } :
            i \in 1..Len(tasks) }

\* _math_create_constraints: everything added to the CP model
_math_create_constraints(mt) ==
    _math_create_physician_availability_constraints(mt)
    \cup _math_create_mandatory_task_constraints(mt)
    \cup _math_create_call_linked_to_main_tasks_constraints(mt)
    \cup _math_create_non_simultaneous_tasks(mt)

\* _math_create_objective_function: the variable the stub objective maximizes,
\* or the exception its construction raises
ObjectiveVar(mt) ==
    IF tasks = << >> \/ mt[tasks[1].name] = << >>
    THEN [raises |-> "TypeError", var |-> << >>]
    ELSE LET vv == mt[tasks[1].name][1].list
         IN  IF vv = << >> \/ vv[1].available_physicians = << >>
             THEN [raises |-> "IndexError", var |-> << >>]
             ELSE [raises |-> "None", var |-> y_var(vv[1], vv[1].available_physicians[1])]

-----------------------------------------------------------------------------
(* The CP-SAT solver: an assignment is the set of y variables set to 1 *)

ConVars(c) == c.v \cup c.w

Sat(y, c) ==
    LET a == Cardinality(c.v \cap y)
        b == Cardinality(c.w \cap y)
    IN  CASE c.kind = "zero" -> a = 0
          [] c.kind = "atleast1" -> a >= 1
          [] c.kind = "equal" -> a = b
          [] c.kind = "atmost1" -> a <= 1
          [] c.kind = "lesseq" -> a <= b

RECURSIVE Distinct(_)
Distinct(s) ==
    IF s = << >> THEN << >>
    ELSE LET front == Distinct(SubSeq(s, 1, Len(s) - 1))
         IN  IF InSeq(s[Len(s)], front) THEN front ELSE Append(front, s[Len(s)])

\* all assignments of order[1..i-1] that satisfy the constraints whose
\* variables all lie in order[1..i-1], extended variable by variable
RECURSIVE Search(_, _, _, _)
Search(partial, order, i, cons) ==
    IF i > Len(order) THEN partial
    ELSE LET v == order[i]
             decided == { order[k] : k \in 1..i }
             due == { c \in cons : v \in ConVars(c) /\ ConVars(c) \subseteq decided }
         IN  Search({ y \in partial \cup { s \cup {v} : s \in partial } :
                         \A c \in due : Sat(y, c) },
                    order, i + 1, cons)

\* every assignment of the variables that satisfies every constraint
Solutions(cons, yvars) ==
    IF \E c \in cons : ConVars(c) = {} /\ ~Sat({}, c) THEN {}
    ELSE Search({{}}, Distinct(yvars), 1, cons)

-----------------------------------------------------------------------------
(* Solver driver *)

\* _math_set_solution: (physician, entry) in the order _add_to_schedule is called
Extracted(mt, y) ==
    LET nweeks == IF tasks = << >> THEN 0 ELSE Len(mt[tasks[1].name])
    IN  Flatten([w \in 1..nweeks |->
          Flatten([t \in 1..Len(tasks) |->
            Flatten([m \in 1..Len(mt[tasks[t].name][w].list) |->
              LET M == mt[tasks[t].name][w].list[m]
                  chosen == SelectSeq(M.available_physicians, LAMBDA p : y_var(M, p) \in y)
              IN  [q \in 1..Len(chosen) |->
                      [physician |-> chosen[q], task |-> M.name, days |-> M.days,
                       start_date |-> M.days[1], end_date |-> M.days[Len(M.days)],
                       score |-> 0]]])])])

\* an extractor without the reset of self.schedule: the entries of the
\* solution are appended to those already there
KeepPriorEntries(mt, y) ==
    LET ex == Extracted(mt, y)
    IN  [p \in DOMAIN schedule \cup { ex[i].physician : i \in 1..Len(ex) } |->
            (IF p \in DOMAIN schedule THEN schedule[p] ELSE << >>)
            \o LET mine == SelectSeq(ex, LAMBDA e : e.physician = p)
               IN  [i \in 1..Len(mine) |->
                       [task |-> mine[i].task, days |-> mine[i].days,
                        start_date |-> mine[i].start_date, end_date |-> mine[i].end_date,
                        score |-> mine[i].score]]]

_math_set_solution(mt, y) ==
    LET ex == Extracted(mt, y)
    IN  [p \in { ex[i].physician : i \in 1..Len(ex) } |->
            LET mine == SelectSeq(ex, LAMBDA e : e.physician = p)
            IN  [i \in 1..Len(mine) |->
                    [task |-> mine[i].task, days |-> mine[i].days,
                     start_date |-> mine[i].start_date, end_date |-> mine[i].end_date,
                     score |-> mine[i].score]]]

Solved == {"OPTIMAL", "FEASIBLE"}

\* status = self.math_solver.solve(self.math_model) and what follows it: the
\* solver has no time limit, so it ends with an optimal solution or with none
SolveModel(mt, objective) ==
    \E solutions \in { Solutions(_math_create_constraints(mt), YVars(mt)) } :
        IF solutions = {}
        THEN /\ status' = "INFEASIBLE"
             /\ y_value' = {}
             /\ UNCHANGED schedule
        ELSE \E y \in solutions :
                /\ \A z \in solutions : objective \in z => objective \in y
                /\ status' = "OPTIMAL"
                /\ y_value' = y
                /\ schedule' = _math_set_solution(mt, y)

\* generate_schedule, from the periods to the end of the call; an exception
\* ends the call where it is raised
generate_schedule ==
    \E relevant_periods \in { _filter_relevant_periods(determine_periods(Cal),
                                                       _extend_scheduling_period) } :
        IF FirstUnsupported # 0 /\ relevant_periods # << >>
        THEN /\ status' = "NotImplementedError"
             /\ math_tasks' = PartialMathTasks(relevant_periods, FirstUnsupported)
             /\ UNCHANGED << schedule, y_value >>
        ELSE \E mt \in { _math_create_variables(relevant_periods) } :
                /\ math_tasks' = mt
                /\ IF LinkRaises(mt)
                   THEN status' = "IndexError" /\ UNCHANGED << schedule, y_value >>
                   ELSE IF ObjectiveVar(mt).raises # "None"
                   THEN status' = ObjectiveVar(mt).raises /\ UNCHANGED << schedule, y_value >>
                   ELSE SolveModel(mt, ObjectiveVar(mt).var)

-----------------------------------------------------------------------------
(* The configurations and the operations of a session *)

MaxEdits == 2

MaxCalls == 2

ctu_category == TaskCategory("CTU", "Multi-week", 2)

er_category == TaskCategory("ER", "Continuous", 1)

\* main.py's CTU_A and ER_1 with their linked calls
main_tasks ==
    << Task(ctu_category, "Main", "CTU_A", 0, 4, TRUE),
       Task(ctu_category, "Call", "CTU_A_CALL", 0, 5, FALSE),
       Task(er_category, "Main", "ER_1", 0, 5, TRUE),
       Task(er_category, "Call", "ER_CALL", 0, 5, FALSE) >>

main_links == [n \in {"CTU_A", "ER_1"} |-> IF n = "CTU_A" THEN "CTU_A_CALL" ELSE "ER_CALL"]

\* ER_1 with its linked call alone
er_tasks == SubSeq(main_tasks, 3, 4)

er_links == [n \in {"ER_1"} |-> "ER_CALL"]

\* a category that the engine does not support, with a MAIN and with a CALL task
dx_category == TaskCategory("DX", "Discontinuous", 1)

dx_main_tasks == er_tasks \o << Task(dx_category, "Main", "DX_1", 0, 5, TRUE) >>

dx_call_tasks == er_tasks \o << Task(dx_category, "Call", "DX_CALL", 0, 5, FALSE) >>

\* task.py's CTU_A and CTU_B (a week later) with the call they share
shared_call_tasks ==
    << Task(ctu_category, "Main", "CTU_A", 0, 4, TRUE),
       Task(ctu_category, "Main", "CTU_B", 1, 4, TRUE),
       Task(ctu_category, "Call", "CTU_AB_CALL", 0, 5, TRUE) >>

shared_call_links == [n \in {"CTU_A", "CTU_B"} |-> "CTU_AB_CALL"]

\* the sessions: a calendar horizon from a Monday (two whole weeks, to the
\* Friday of the third week, three whole weeks), the scheduling period (the
\* horizon itself, or two weeks that end more than a week before it, so that
\* no period is relevant, or a horizon from a Saturday, whose first week has
\* no working day) and a task setup
Sessions ==
    { [horizon |-> << 0, 13 >>, period |-> << 0, 13 >>, tasks |-> main_tasks, links |-> main_links],
      [horizon |-> << 0, 18 >>, period |-> << 0, 18 >>, tasks |-> er_tasks, links |-> er_links],
      [horizon |-> << 0, 20 >>, period |-> << 0, 20 >>, tasks |-> main_tasks, links |-> main_links],
      [horizon |-> << 0, 13 >>, period |-> << 0, 13 >>, tasks |-> dx_main_tasks, links |-> er_links],
      [horizon |-> << 0, 13 >>, period |-> << 0, 13 >>, tasks |-> dx_call_tasks, links |-> er_links],
      [horizon |-> << 0, 13 >>, period |-> << 0 - 21, 0 - 8 >>, tasks |-> dx_main_tasks, links |-> er_links],
      [horizon |-> << 5, 18 >>, period |-> << 5, 18 >>, tasks |-> er_tasks, links |-> er_links],
      [horizon |-> << 0, 13 >>, period |-> << 0, 13 >>, tasks |-> shared_call_tasks,
       links |-> shared_call_links] }

john_doe ==
    [first_name |-> << "J", "o", "h", "n" >>, last_name |-> << "D", "o", "e" >>, name |-> "John Doe"]

jane_smith ==
    [first_name |-> << "J", "a", "n", "e" >>, last_name |-> << "S", "m", "i", "t", "h" >>,
     name |-> "Jane Smith"]

Physicians == << john_doe.name, jane_smith.name >>

HolidayDates == { 0, 14, 15 }

UnavailabilityEntries == { OnDate(2), DateRange(7, 20) }

edits == Len(holidays) + Len(unavailability_periods[Physicians[1]])
         + Len(unavailability_periods[Physicians[2]])

Init ==
    /\ \E s \in Sessions :
          /\ start_date = s.horizon[1]
          /\ end_date = s.horizon[2]
          /\ tasks = s.tasks
          /\ links = s.links
          /\ scheduling_period = s.period
    /\ holidays = << >>
    /\ working_days = get_working_days(start_date, end_date, holidays)
    /\ weekend_days = get_weekend_days(start_date, end_date)
    /\ call_days = get_call_days(weekend_days, holidays)
    /\ physicians = Physicians
    /\ initials = << _set_initials(<< >>, john_doe).initials,
                     _set_initials(<< _set_initials(<< >>, john_doe).initials >>, jane_smith).initials >>
    /\ add_error = "None"
    /\ sweep = << >>
    /\ periods = << >>
    /\ loaded_calendar = << >>
    /\ calendar_file = << >>
    /\ region = "Canada/QC"
    /\ link_error = "None"
    /\ unavailability_periods = [p \in Range(Physicians) |-> << >>]
    /\ unavailability_error = "None"
    /\ schedule = << >>
    /\ math_tasks = << >>
    /\ y_value = {}
    /\ status = "none"
    /\ calls = 0

add_holiday(holiday) ==
    /\ IF InSeq(holiday, holidays)
       THEN UNCHANGED << holidays, working_days, call_days >>
       ELSE /\ holidays' = SortDates(Append(holidays, holiday))
            /\ IF weekday(holiday) < 5 /\ ~InSeq(holiday, working_days)
               THEN \* list.remove raises ValueError: the holiday is listed, and nothing else is done
                    UNCHANGED << working_days, call_days >>
               ELSE /\ working_days' = IF weekday(holiday) < 5
                                       THEN RemoveFirst(working_days, holiday)
                                       ELSE working_days
                    /\ call_days' = get_call_days(weekend_days, holidays')
    /\ UNCHANGED << start_date, end_date, weekend_days, unavailability_periods, unavailability_error >>
    /\ UNCHANGED config_vars
    /\ UNCHANGED solve_vars

\* a period that is neither a date nor a pair of dates (three dates)
Malformed == [kind |-> "malformed", start |-> 0, end |-> 0]

\* a period is a date or a pair of dates
WellFormed(period) == period.kind \in { "date", "range" }

\* an unavailability map with the physician's list, an empty one if there was none
WithList(map, physician_name) ==
    IF physician_name \in DOMAIN map THEN map ELSE SetItem(map, physician_name, << >>)

\* PhysicianManager.add_unavailability that appends whatever it is given
AppendAnyPeriod(physician_name, period) ==
    /\ unavailability_periods' =
          [WithList(unavailability_periods, physician_name) EXCEPT ![physician_name] = Append(@, period)]
    /\ unavailability_error' = "None"
    /\ UNCHANGED calendar_vars
    /\ UNCHANGED config_vars
    /\ UNCHANGED solve_vars

add_unavailability(physician_name, period) ==
    /\ IF ~InSeq(physician_name, physicians)
       THEN /\ unavailability_error' = "ValueError"
            /\ UNCHANGED unavailability_periods
       ELSE IF WellFormed(period)
            THEN /\ unavailability_periods' =
                       [WithList(unavailability_periods, physician_name)
                           EXCEPT ![physician_name] = Append(@, period)]
                 /\ unavailability_error' = "None"
            ELSE /\ unavailability_periods' = WithList(unavailability_periods, physician_name)
                 /\ unavailability_error' = "ValueError"
    /\ UNCHANGED calendar_vars
    /\ UNCHANGED config_vars
    /\ UNCHANGED solve_vars

GenerateSchedule ==
    /\ calls < MaxCalls
    /\ calls' = calls + 1
    /\ generate_schedule
    /\ UNCHANGED calendar_vars
    /\ UNCHANGED config_vars
    /\ UNCHANGED << unavailability_periods, unavailability_error >>

\* the holidays added are dates of the horizon
AddHoliday ==
    /\ edits < MaxEdits
    /\ \E d \in HolidayDates \cap (start_date..end_date) : add_holiday(d)

AddUnavailability ==
    /\ edits < MaxEdits
    /\ \E p \in Range(Physicians), e \in UnavailabilityEntries : add_unavailability(p, e)

Next == AddHoliday \/ AddUnavailability \/ GenerateSchedule

Spec == Init /\ [][Next]_vars

-----------------------------------------------------------------------------
(* The calendar alone: holidays added to and removed from a calendar *)

MaxHolidays == 6

\* horizons that start and end on a Monday, in mid-week or on a weekend
CalHorizons == { << 0, 13 >>, << 0, 20 >>, << 2, 17 >>, << 5, 14 >> }

\* the Monday, the Thursday, the Friday and the Saturday of the first week,
\* the Monday to the Friday of the second, the Monday of the third
CalHolidayDates == { 0, 3, 4, 5, 7, 8, 9, 10, 11, 14 }

CalInit ==
    /\ \E h \in CalHorizons :
          /\ start_date = h[1]
          /\ end_date = h[2]
    /\ holidays = << >>
    /\ working_days = get_working_days(start_date, end_date, holidays)
    /\ weekend_days = get_weekend_days(start_date, end_date)
    /\ call_days = get_call_days(weekend_days, holidays)
    /\ physicians = << >>
    /\ initials = << >>
    /\ add_error = "None"
    /\ sweep = << >>
    /\ periods = << >>
    /\ loaded_calendar = << >>
    /\ calendar_file = << >>
    /\ region = "Canada/QC"
    /\ link_error = "None"
    /\ unavailability_periods = << >>
    /\ unavailability_error = "None"
    /\ tasks = << >>
    /\ links = << >>
    /\ scheduling_period = << start_date, end_date >>
    /\ schedule = << >>
    /\ math_tasks = << >>
    /\ y_value = {}
    /\ status = "none"
    /\ calls = 0

\* a removal that does not give the day back to working_days
RemoveHolidayOnly(holiday) ==
    /\ holidays' = IF InSeq(holiday, holidays) THEN RemoveFirst(holidays, holiday) ELSE holidays
    /\ call_days' = get_call_days(weekend_days, holidays')
    /\ UNCHANGED << start_date, end_date, working_days, weekend_days, unavailability_periods, unavailability_error >>
    /\ UNCHANGED config_vars
    /\ UNCHANGED solve_vars

remove_holiday(holiday) ==
    /\ IF InSeq(holiday, holidays)
       THEN /\ holidays' = RemoveFirst(holidays, holiday)
            /\ working_days' = IF weekday(holiday) < 5
                               THEN SortDates(Append(working_days, holiday))
                               ELSE working_days
            /\ call_days' = get_call_days(weekend_days, holidays')
       ELSE UNCHANGED << holidays, working_days, call_days >>
    /\ UNCHANGED << start_date, end_date, weekend_days, unavailability_periods, unavailability_error >>
    /\ UNCHANGED config_vars
    /\ UNCHANGED solve_vars

CalAddHoliday ==
    /\ Len(holidays) < MaxHolidays
    /\ \E d \in CalHolidayDates \cap (start_date..end_date) : add_holiday(d)

CalRemoveHoliday ==
    \E d \in CalHolidayDates \cap (start_date..end_date) : remove_holiday(d)

CalNext == CalAddHoliday \/ CalRemoveHoliday

CalSpec == CalInit /\ [][CalNext]_vars

-----------------------------------------------------------------------------
(* The registry alone: physicians constructed and added to a PhysicianManager *)

MaxPhysicians == 3

jane_doe ==
    [first_name |-> << "J", "a", "n", "e" >>, last_name |-> << "D", "o", "e" >>, name |-> "Jane Doe"]

jack_dole ==
    [first_name |-> << "J", "a", "c", "k" >>, last_name |-> << "D", "o", "l", "e" >>,
     name |-> "Jack Dole"]

j_dunn ==
    [first_name |-> << "J" >>, last_name |-> << "D", "u", "n", "n" >>, name |-> "J Dunn"]

\* the arguments of Physician(...): who, the preferred tasks (known ones, an
\* unknown one, an unknown one in fourth place), the desired working weeks
\* (none, a value that is not allowed, three quarters), the restricted and the
\* excluded tasks (known or unknown)
PhysicianInputs ==
    [who : { john_doe, jane_smith, jane_doe, jack_dole, j_dunn },
     preferred_tasks : { << "CTU", "ER" >>, << "ICU" >>, << "ER", "CTU", "ER", "ICU" >> },
     desired_working_weeks : { 0, 30, 75 },
     restricted_tasks : { << "CTU" >>, << "ICU" >> },
     exclusion_tasks : { << >>, << "ICU" >> }]

RegistryInit ==
    /\ start_date = 0
    /\ end_date = 13
    /\ holidays = << >>
    /\ working_days = get_working_days(start_date, end_date, holidays)
    /\ weekend_days = get_weekend_days(start_date, end_date)
    /\ call_days = get_call_days(weekend_days, holidays)
    /\ physicians = << >>
    /\ initials = << >>
    /\ add_error = "None"
    /\ sweep = << >>
    /\ periods = << >>
    /\ loaded_calendar = << >>
    /\ calendar_file = << >>
    /\ region = "Canada/QC"
    /\ link_error = "None"
    /\ unavailability_periods = << >>
    /\ unavailability_error = "None"
    /\ tasks = main_tasks
    /\ links = main_links
    /\ scheduling_period = << start_date, end_date >>
    /\ schedule = << >>
    /\ math_tasks = << >>
    /\ y_value = {}
    /\ status = "none"
    /\ calls = 0

\* what no registration changes
registry_frame == << calendar_vars, sweep, periods, loaded_calendar, calendar_file, region, link_error, tasks, links, scheduling_period, solve_vars >>

add_physician(physician) ==
    /\ IF _validate_physician(physician) # "None"
       THEN /\ add_error' = _validate_physician(physician)
            /\ UNCHANGED << physicians, initials, unavailability_periods, unavailability_error >>
       ELSE IF _set_initials(initials, physician).raises # "None"
       THEN /\ add_error' = _set_initials(initials, physician).raises
            /\ UNCHANGED << physicians, initials, unavailability_periods, unavailability_error >>
       ELSE /\ add_error' = "None"
            /\ physicians' = Append(physicians, physician.name)
            /\ initials' = Append(initials, _set_initials(initials, physician).initials)
            /\ unavailability_periods' =
                  [n \in DOMAIN unavailability_periods \cup {physician.name} |->
                      IF n = physician.name THEN << >> ELSE unavailability_periods[n]]
            /\ UNCHANGED unavailability_error
    /\ UNCHANGED registry_frame

\* a physician is constructed and handed to add_physician
Register(input) ==
    IF PhysicianRaises(input.desired_working_weeks) # "None"
    THEN /\ add_error' = PhysicianRaises(input.desired_working_weeks)
         /\ UNCHANGED << physicians, initials, unavailability_periods, unavailability_error >>
         /\ UNCHANGED registry_frame
    ELSE add_physician(Physician(input.who, input.preferred_tasks, input.desired_working_weeks,
                                 input.restricted_tasks, input.exclusion_tasks))

RegisterPhysician ==
    /\ Len(physicians) < MaxPhysicians
    /\ \E input \in PhysicianInputs : Register(input)

RegistryNext == RegisterPhysician

RegistrySpec == RegistryInit /\ [][RegistryNext]_vars

-----------------------------------------------------------------------------
(* The linkage alone: tasks linked, unlinked and removed *)

\* main.py's six tasks
config_tasks ==
    << Task(ctu_category, "Main", "CTU_A", 0, 4, TRUE),
       Task(ctu_category, "Main", "CTU_B", 1, 4, TRUE),
       Task(ctu_category, "Call", "CTU_A_CALL", 0, 5, FALSE),
       Task(ctu_category, "Call", "CTU_B_CALL", 0, 5, FALSE),
       Task(er_category, "Main", "ER_1", 0, 5, TRUE),
       Task(er_category, "Call", "ER_CALL", 0, 5, FALSE) >>

\* the names given to TaskManager.link_tasks: those of the tasks, and one of no task
LinkNames == { config_tasks[i].name : i \in 1..Len(config_tasks) } \cup { "CTU_C" }

LinkInit ==
    /\ start_date = 0
    /\ end_date = 13
    /\ holidays = << >>
    /\ working_days = get_working_days(0, 13, << >>)
    /\ weekend_days = get_weekend_days(0, 13)
    /\ call_days = get_call_days(get_weekend_days(0, 13), << >>)
    /\ physicians = << >>
    /\ initials = << >>
    /\ add_error = "None"
    /\ sweep = << >>
    /\ periods = << >>
    /\ loaded_calendar = << >>
    /\ calendar_file = << >>
    /\ region = "Canada/QC"
    /\ link_error = "None"
    /\ unavailability_periods = << >>
    /\ unavailability_error = "None"
    /\ tasks = config_tasks
    /\ links = << >>
    /\ scheduling_period = << 0, 13 >>
    /\ schedule = << >>
    /\ math_tasks = << >>
    /\ y_value = {}
    /\ status = "none"
    /\ calls = 0

link_frame == << calendar_vars, sweep, periods, loaded_calendar, calendar_file, region, physicians, initials, add_error, unavailability_periods, unavailability_error,
                 tasks, scheduling_period, solve_vars >>

\* a linkage that does not look at the types of the tasks
LinkAnyTasks(main_task, call_task) ==
    /\ links' = SetItem(links, main_task.name, call_task.name)
    /\ link_error' = "None"
    /\ UNCHANGED link_frame

\* LinkageManager.link_tasks
link_tasks(main_task, call_task) ==
    /\ IF main_task.type = "Main" /\ call_task.type = "Call"
       THEN /\ links' = SetItem(links, main_task.name, call_task.name)
            /\ link_error' = "None"
       ELSE /\ link_error' = "ValueError"
            /\ UNCHANGED links
    /\ UNCHANGED link_frame

\* LinkageManager.unlink_task
unlink_task(main_task) ==
    /\ links' = Pop(links, main_task.name)
    /\ link_error' = "None"
    /\ UNCHANGED link_frame

\* LinkageManager.remove_task
remove_task(task) ==
    /\ links' = [n \in { m \in DOMAIN Pop(links, task.name) : links[m] # task.name } |-> links[n]]
    /\ link_error' = "None"
    /\ UNCHANGED link_frame

\* TaskManager.link_tasks: the tasks are looked up by name; with a name of
\* no task a message is printed and nothing is linked
LinkByName(main_task_name, call_task_name) ==
    IF main_task_name \in TaskNames /\ call_task_name \in TaskNames
    THEN \E i, j \in 1..Len(tasks) :
            /\ tasks[i].name = main_task_name
            /\ tasks[j].name = call_task_name
            /\ link_tasks(tasks[i], tasks[j])
    ELSE /\ link_error' = "None"
         /\ UNCHANGED << links, link_frame >>

LinkTasks == \E main_task, call_task \in Range(tasks) : link_tasks(main_task, call_task)

LinkTasksByName == \E main_task_name, call_task_name \in LinkNames : LinkByName(main_task_name, call_task_name)

UnlinkTask == \E main_task \in Range(tasks) : unlink_task(main_task)

RemoveTask == \E task \in Range(tasks) : remove_task(task)

LinkNext == LinkTasks \/ LinkTasksByName \/ UnlinkTask \/ RemoveTask

LinkSpec == LinkInit /\ [][LinkNext]_vars

-----------------------------------------------------------------------------
(* The availability oracle alone: unavailability set and added *)

MaxPeriods == 2

\* the names given to add_unavailability: those of the two registered
\* physicians, and that of one who is not registered
UnavailabilityNames == Range(Physicians) \cup { "Eric Yamga" }

\* the periods given to add_unavailability
UnavailabilityInputs == UnavailabilityEntries \cup { Malformed }

\* the maps given to set_unavailability_periods
UnavailabilityMaps ==
    { << >>,
      [n \in { "John Doe" } |-> << DateRange(0, 6), OnDate(8) >>],
      [n \in { "John Doe", "Jane Smith" } |->
          IF n = "John Doe" THEN << DateRange(0, 6), OnDate(8) >> ELSE << OnDate(2) >>],
      [n \in { "Eric Yamga" } |-> << OnDate(2) >>],
      [n \in { "Jane Smith", "Eric Yamga" } |-> << DateRange(7, 20) >>] }

AvailabilityInit ==
    /\ start_date = 0
    /\ end_date = 13
    /\ holidays = << >>
    /\ working_days = get_working_days(0, 13, << >>)
    /\ weekend_days = get_weekend_days(0, 13)
    /\ call_days = get_call_days(get_weekend_days(0, 13), << >>)
    /\ physicians = Physicians
    /\ initials = << _set_initials(<< >>, john_doe).initials,
                     _set_initials(<< _set_initials(<< >>, john_doe).initials >>, jane_smith).initials >>
    /\ add_error = "None"
    /\ sweep = << >>
    /\ periods = << >>
    /\ loaded_calendar = << >>
    /\ calendar_file = << >>
    /\ region = "Canada/QC"
    /\ link_error = "None"
    /\ unavailability_periods = [p \in Range(Physicians) |-> << >>]
    /\ unavailability_error = "None"
    /\ tasks = er_tasks
    /\ links = er_links
    /\ scheduling_period = << 0, 13 >>
    /\ schedule = << >>
    /\ math_tasks = << >>
    /\ y_value = {}
    /\ status = "none"
    /\ calls = 0

\* PhysicianManager.set_unavailability_periods that stores the map unchecked
StoreAnyMap(periods_map) ==
    /\ unavailability_periods' = periods_map
    /\ unavailability_error' = "None"
    /\ UNCHANGED << calendar_vars, config_vars, solve_vars >>

\* PhysicianManager.set_unavailability_periods
set_unavailability_periods(periods_map) ==
    /\ IF \E physician_name \in DOMAIN periods_map : ~InSeq(physician_name, physicians)
       THEN /\ unavailability_error' = "ValueError"
            /\ UNCHANGED unavailability_periods
       ELSE /\ unavailability_periods' = periods_map
            /\ unavailability_error' = "None"
    /\ UNCHANGED << calendar_vars, config_vars, solve_vars >>

SetUnavailabilityPeriods == \E periods_map \in UnavailabilityMaps : set_unavailability_periods(periods_map)

AddAnyUnavailability ==
    \E physician_name \in UnavailabilityNames, period \in UnavailabilityInputs :
        /\ physician_name \in DOMAIN unavailability_periods =>
              Len(unavailability_periods[physician_name]) < MaxPeriods
        /\ add_unavailability(physician_name, period)

AvailabilityNext == SetUnavailabilityPeriods \/ AddAnyUnavailability

AvailabilitySpec == AvailabilityInit /\ [][AvailabilityNext]_vars

-----------------------------------------------------------------------------
(* The calendar document: a calendar saved to calendar.json and loaded from it. *)
(* Day 0 is 2023-01-02; the dates lie in January and February 2023.            *)

MaxStored == 2

\* date.isoformat: the year, the month and the day of the month
isoformat(d) ==
    IF d + 2 <= 31 THEN << 2023, 1, d + 2 >> ELSE << 2023, 2, d + 2 - 31 >>

\* date.fromisoformat
fromisoformat(text) ==
    (IF text[2] = 1 THEN text[3] ELSE 31 + text[3]) - 2

isoformats(days) == [i \in 1..Len(days) |-> isoformat(days[i])]

fromisoformats(texts) == [i \in 1..Len(texts) |-> fromisoformat(texts[i])]

\* the dates of January 2023 that the holidays package lists for the regions
\* the calendar supports: New Year's Day (a Sunday) in Quebec; New Year's
\* Day, the Monday it is observed on and Martin Luther King Jr. Day in
\* California
SupportedRegions == { "Canada/QC", "USA/CA" }

holidays_package(a_region) ==
    IF a_region = "Canada/QC" THEN << 0 - 1 >> ELSE << 0 - 1, 0, 14 >>

\* Calendar.load_holidays
load_holidays(first, last, a_region) ==
    IF a_region \notin SupportedRegions
    THEN [raises |-> "ValueError", holidays |-> << >>]
    ELSE [raises |-> "None",
          holidays |-> SelectSeq(holidays_package(a_region), LAMBDA d : first <= d /\ d <= last)]

\* Calendar.__init__: the holidays given, or those of the region when none
\* (or an empty list) is given
NewCalendar(first, last, a_region, given) ==
    LET loaded == IF given # << >> THEN [raises |-> "None", holidays |-> given]
                  ELSE load_holidays(first, last, a_region)
    IN  [raises |-> loaded.raises, start_date |-> first, end_date |-> last, region |-> a_region,
         holidays |-> loaded.holidays,
         working_days |-> get_working_days(first, last, loaded.holidays),
         weekend_days |-> get_weekend_days(first, last),
         call_days |-> get_call_days(get_weekend_days(first, last), loaded.holidays)]

\* the calendars made: in a region with no holiday in the horizon, in one with
\* holidays in it, and in a region the package is not asked about, with the
\* holidays given
StoreCalendars ==
    { NewCalendar(0, 13, "Canada/QC", << >>),
      NewCalendar(0, 13, "USA/CA", << >>),
      NewCalendar(0, 20, "USA/CA", << >>),
      NewCalendar(0, 13, "Canada/BC", << 4 >>) }

StoreHolidayDates == { 0, 4, 14 }

StoreInit ==
    /\ \E c \in StoreCalendars :
          /\ start_date = c.start_date
          /\ end_date = c.end_date
          /\ region = c.region
          /\ holidays = c.holidays
          /\ working_days = c.working_days
          /\ weekend_days = c.weekend_days
          /\ call_days = c.call_days
    /\ calendar_file = << >>
    /\ loaded_calendar = << >>
    /\ physicians = << >>
    /\ initials = << >>
    /\ add_error = "None"
    /\ sweep = << >>
    /\ periods = << >>
    /\ link_error = "None"
    /\ unavailability_periods = << >>
    /\ unavailability_error = "None"
    /\ tasks = << >>
    /\ links = << >>
    /\ scheduling_period = << start_date, end_date >>
    /\ schedule = << >>
    /\ math_tasks = << >>
    /\ y_value = {}
    /\ status = "none"
    /\ calls = 0

store_frame == << calendar_vars, sweep, periods, region, physicians, initials, add_error, link_error,
                 unavailability_periods, unavailability_error, tasks, links,
                 scheduling_period, solve_vars >>

\* Calendar.save_calendar
save_calendar ==
    /\ calendar_file' =
          << [start_date |-> isoformat(start_date), end_date |-> isoformat(end_date),
              region |-> region, holidays |-> isoformats(holidays),
              working_days |-> isoformats(working_days),
              weekend_days |-> isoformats(weekend_days),
              call_days |-> isoformats(call_days)] >>
    /\ UNCHANGED << loaded_calendar, store_frame >>

\* Calendar.load_calendar: the calendar is constructed from the dates, the
\* region and the holidays of the document, and its working, weekend and call
\* days are then set to those of the document
load_calendar ==
    /\ calendar_file # << >>
    /\ LET calendar_state == calendar_file[1]
           calendar == NewCalendar(fromisoformat(calendar_state.start_date),
                                   fromisoformat(calendar_state.end_date),
                                   calendar_state.region,
                                   fromisoformats(calendar_state.holidays))
       IN  loaded_calendar' =
              IF calendar.raises # "None" THEN << [raises |-> calendar.raises] >>
              ELSE << [calendar EXCEPT !.working_days = fromisoformats(calendar_state.working_days),
                                       !.weekend_days = fromisoformats(calendar_state.weekend_days),
                                       !.call_days = fromisoformats(calendar_state.call_days)] >>
    /\ UNCHANGED << calendar_file, store_frame >>

StoreAddHoliday ==
    /\ Len(holidays) < MaxStored
    /\ \E d \in StoreHolidayDates \cap (start_date..end_date) : add_holiday(d)

StoreRemoveHoliday ==
    \E d \in StoreHolidayDates \cap (start_date..end_date) : remove_holiday(d)

SaveCalendar == save_calendar

LoadCalendar == load_calendar

StoreNext == StoreAddHoliday \/ StoreRemoveHoliday \/ SaveCalendar \/ LoadCalendar

StoreSpec == StoreInit /\ [][StoreNext]_vars

-----------------------------------------------------------------------------
(* The segmenter called: determine_periods called on a calendar whose holidays *)
(* change between the calls                                                    *)

\* the horizons: two whole weeks, from a Wednesday to a Thursday, from a
\* Saturday to a Monday, and one whose start is later than its end
PeriodHorizons == { << 0, 13 >>, << 2, 17 >>, << 5, 14 >>, << 3, 2 >> }

PeriodHolidayDates == { 4, 7, 8 }

MaxPeriodHolidays == 3

PeriodInit ==
    /\ \E h \in PeriodHorizons :
          /\ start_date = h[1]
          /\ end_date = h[2]
    /\ holidays = << >>
    /\ working_days = get_working_days(start_date, end_date, holidays)
    /\ weekend_days = get_weekend_days(start_date, end_date)
    /\ call_days = get_call_days(weekend_days, holidays)
    /\ periods = << >>
    /\ region = "Canada/QC"
    /\ calendar_file = << >>
    /\ loaded_calendar = << >>
    /\ physicians = << >>
    /\ initials = << >>
    /\ add_error = "None"
    /\ sweep = << >>
    /\ link_error = "None"
    /\ unavailability_periods = << >>
    /\ unavailability_error = "None"
    /\ tasks = << >>
    /\ links = << >>
    /\ scheduling_period = << start_date, end_date >>
    /\ schedule = << >>
    /\ math_tasks = << >>
    /\ y_value = {}
    /\ status = "none"
    /\ calls = 0

periods_frame == << calendar_vars, sweep, calendar_file, loaded_calendar, region, physicians, initials, add_error,
                   link_error, unavailability_periods, unavailability_error, tasks, links,
                   scheduling_period, solve_vars >>

\* a segmenter that takes the call days it lists out of the calendar
ConsumeCallDays ==
    /\ periods' = << [start_date |-> start_date, end_date |-> end_date, holidays |-> holidays,
                      mapping |-> determine_periods(Cal)] >>
    /\ call_days' = SelectSeq(call_days, LAMBDA d : d \in Range(holidays))
    /\ UNCHANGED << start_date, end_date, holidays, working_days, weekend_days >>
    /\ UNCHANGED << sweep, calendar_file, loaded_calendar, region, physicians, initials, add_error,
                    link_error, unavailability_periods, unavailability_error, tasks, links,
                    scheduling_period, solve_vars >>

\* periods = calendar.determine_periods()
DeterminePeriods ==
    /\ periods' = << [start_date |-> start_date, end_date |-> end_date, holidays |-> holidays,
                      mapping |-> determine_periods(Cal)] >>
    /\ UNCHANGED periods_frame

PeriodAddHoliday ==
    /\ Len(holidays) < MaxPeriodHolidays
    /\ \E d \in PeriodHolidayDates \cap (start_date..end_date) : add_holiday(d)

PeriodRemoveHoliday ==
    \E d \in PeriodHolidayDates \cap (start_date..end_date) : remove_holiday(d)

PeriodNext == PeriodAddHoliday \/ PeriodRemoveHoliday \/ DeterminePeriods

PeriodSpec == PeriodInit /\ [][PeriodNext]_vars

-----------------------------------------------------------------------------
(* The sweep alone: _create_mutually_exclusive_math_tasks_constraints called on *)
(* two lists of MathTasks                                                     *)

MaxDay == 4

MaxLen == 3

\* the MathTasks of a task over the intervals, in the order given
MathTasksOver(name, intervals) ==
    [k \in 1..Len(intervals) |->
        [name |-> name, start_date |-> intervals[k][1], end_date |-> intervals[k][2]]]

\* the lists of intervals that are time-ordered and do not overlap each
\* other, from those that end on the day e or before it
RECURSIVE IntervalLists(_, _)
IntervalLists(e, n) ==
    { << >> } \cup
    (IF n = 0 THEN {}
     ELSE UNION { { Append(front, last) : front \in IntervalLists(last[1] - 1, n - 1) } :
                  last \in { x \in (0..e) \X (0..e) : x[1] <= x[2] } })

\* the number of times the loop of the sweep is gone through
RECURSIVE SweepSteps(_, _, _, _)
SweepSteps(A, B, i, j) ==
    IF i > Len(A) \/ j > Len(B) THEN 0
    ELSE 1 + (IF A[i].end_date < B[j].end_date
              THEN SweepSteps(A, B, i + 1, j)
              ELSE SweepSteps(A, B, i, j + 1))

SweepInit ==
    /\ \E a, b \in IntervalLists(MaxDay, MaxLen) :
          sweep = [A |-> MathTasksOver("ER_1", a), B |-> MathTasksOver("ER_CALL", b),
                   called |-> FALSE, constraints |-> {}, steps |-> 0]
    /\ start_date = 0
    /\ end_date = 13
    /\ holidays = << >>
    /\ working_days = get_working_days(0, 13, << >>)
    /\ weekend_days = get_weekend_days(0, 13)
    /\ call_days = get_call_days(get_weekend_days(0, 13), << >>)
    /\ periods = << >>
    /\ region = "Canada/QC"
    /\ calendar_file = << >>
    /\ loaded_calendar = << >>
    /\ physicians = Physicians
    /\ initials = << _set_initials(<< >>, john_doe).initials,
                     _set_initials(<< _set_initials(<< >>, john_doe).initials >>, jane_smith).initials >>
    /\ add_error = "None"
    /\ link_error = "None"
    /\ unavailability_periods = [p \in Range(Physicians) |-> << >>]
    /\ unavailability_error = "None"
    /\ tasks = er_tasks
    /\ links = er_links
    /\ scheduling_period = << 0, 13 >>
    /\ schedule = << >>
    /\ math_tasks = << >>
    /\ y_value = {}
    /\ status = "none"
    /\ calls = 0

\* self._create_mutually_exclusive_math_tasks_constraints(A, B)
Sweep ==
    /\ ~sweep.called
    /\ sweep' = [sweep EXCEPT
                    !.called = TRUE,
                    !.constraints = _create_mutually_exclusive_math_tasks_constraints(sweep.A, sweep.B, 1, 1),
                    !.steps = SweepSteps(sweep.A, sweep.B, 1, 1)]
    /\ UNCHANGED << calendar_vars, periods, region, calendar_file, loaded_calendar, physicians,
                    initials, add_error, link_error, unavailability_periods, unavailability_error,
                    tasks, links, scheduling_period, solve_vars >>

SweepNext == Sweep

SweepSpec == SweepInit /\ [][SweepNext]_vars

-----------------------------------------------------------------------------
(* Properties of the registry *)

\* C19: no two registered physicians have the same initials
C19_InitialsUnique ==
    \A i, j \in 1..Len(initials) : i # j => initials[i] # initials[j]

\* the physician built from the input has an unknown preferred, restricted or
\* excluded category name, or desired working weeks outside the allowed set
InvalidConfig(input) ==
    \/ \E i \in 1..Min({3, Len(input.preferred_tasks)}) : input.preferred_tasks[i] \notin task_categories
    \/ \E i \in 1..Len(input.restricted_tasks) : input.restricted_tasks[i] \notin task_categories
    \/ \E i \in 1..Len(input.exclusion_tasks) : input.exclusion_tasks[i] \notin task_categories
    \/ input.desired_working_weeks \notin ALLOWED_WORKING_WEEKS

\* C20: a registration is rejected with the invalid-configuration error
\* exactly when the physician's configuration is invalid; a valid physician,
\* also one with desired working weeks 0, is registered; a rejected
\* registration leaves the physicians and the unavailability map as they were
C20_RejectedExactlyWhenInvalid ==
    [][\A input \in PhysicianInputs :
          (Len(physicians) < MaxPhysicians /\ Register(input)) =>
              /\ InvalidConfig(input) <=> add_error' = "ValueError"
              /\ ~InvalidConfig(input) =>
                    /\ Len(physicians') = Len(physicians) + 1
                    /\ physicians'[Len(physicians')] = input.who.name
              /\ add_error' # "None" =>
                    /\ physicians' = physicians
                    /\ unavailability_periods' = unavailability_periods
      ]_vars

-----------------------------------------------------------------------------
(* Properties of the calendar and of its periods *)

\* what determine_periods returns for the calendar as it is
CalPeriods == determine_periods(Cal)

\* the maximal runs of consecutive call days of the horizon, as << first, last >>
CallRuns ==
    { r \in (start_date..end_date) \X (start_date..end_date) :
        /\ r[1] <= r[2]
        /\ \A d \in r[1]..r[2] : InSeq(d, call_days)
        /\ ~InSeq(r[1] - 1, call_days)
        /\ ~InSeq(r[2] + 1, call_days) }

\* the positions of the CALL periods that hold a day of a..b
CallPeriodsOver(ps, a, b) ==
    { i \in 1..Len(ps) : ps[i].type = "CALL" /\ Range(ps[i].days) \cap (a..b) # {} }

Days(a, b) == [k \in 1..(b - a + 1) |-> a + k - 1]

\* C12: every maximal run of n >= 4 consecutive call days is returned as two
\* CALL periods, its first n \div 2 days and the rest, and no other CALL
\* period holds a day of the run
C12_LongRunsHalved ==
    \A r \in CallRuns :
        LET n == r[2] - r[1] + 1
            over == CallPeriodsOver(CalPeriods, r[1], r[2])
        IN  n >= 4 =>
              /\ Cardinality(over) = 2
              /\ \E i, j \in over :
                    /\ i # j
                    /\ CalPeriods[i].days = Days(r[1], r[1] + (n \div 2) - 1)
                    /\ CalPeriods[j].days = Days(r[1] + (n \div 2), r[2])

\* the Saturdays that open a maximal call run Saturday, Sunday, Monday
SaturdayRuns == { r \in CallRuns : weekday(r[1]) = 5 /\ r[2] = r[1] + 2 }

\* C13: a maximal call run Saturday, Sunday, Monday is returned as one CALL
\* period of these three days under the week key of the Saturday, and no
\* other CALL period holds one of the three days
C13_WeekendWithMondayOnePeriod ==
    \A r \in SaturdayRuns :
        /\ Cardinality(CallPeriodsOver(CalPeriods, r[1], r[2])) = 1
        /\ \A i \in CallPeriodsOver(CalPeriods, r[1], r[2]) :
              /\ CalPeriods[i].days = << r[1], r[1] + 1, r[1] + 2 >>
              /\ CalPeriods[i].week = r[1] - 5

\* a Monday holiday after a weekend, with working days around the run, and
\* the CALL period of the Saturday returned
C13_Witness ==
    /\ InSeq(7, holidays)
    /\ << 5, 7 >> \in SaturdayRuns
    /\ \E i \in 1..Len(CalPeriods) : CalPeriods[i].type = "CALL" /\ CalPeriods[i].days[1] = 5

\* C14: every CALL period that determine_periods returns has at most 3 days
C14_CallPeriodAtMostThreeDays ==
    \A i \in 1..Len(CalPeriods) :
        CalPeriods[i].type = "CALL" => Len(CalPeriods[i].days) <= 3

\* C16: every period that determine_periods returns is non-empty and holds
\* consecutive dates; the days of a MAIN period are working days of the week
\* of its key, the days of a CALL period are call days
C16_PeriodsWellFormed ==
    \A i \in 1..Len(CalPeriods) :
        LET period == CalPeriods[i]
        IN  /\ period.days # << >>
            /\ \A k \in 1..(Len(period.days) - 1) : period.days[k + 1] = period.days[k] + 1
            /\ period.type = "MAIN" =>
                  \A k \in 1..Len(period.days) :
                      /\ InSeq(period.days[k], working_days)
                      /\ period.week <= period.days[k]
                      /\ period.days[k] <= period.week + 6
            /\ period.type = "CALL" =>
                  \A k \in 1..Len(period.days) : InSeq(period.days[k], call_days)

\* a week whose working days a holiday cuts in two MAIN periods, and a CALL
\* period that runs from a weekend into the next week
C16_Witness ==
    /\ \E i, j \in 1..Len(CalPeriods) :
          /\ i # j
          /\ CalPeriods[i].type = "MAIN" /\ CalPeriods[j].type = "MAIN"
          /\ CalPeriods[i].week = CalPeriods[j].week
    /\ \E i \in 1..Len(CalPeriods) :
          /\ CalPeriods[i].type = "CALL"
          /\ CalPeriods[i].days[Len(CalPeriods[i].days)] > CalPeriods[i].week + 6

\* C18: working_days and call_days are disjoint and cover the horizon;
\* working_days is the weekdays that are no holidays, in increasing order and
\* each once; call_days is the weekend days and the holidays
C18_DaysPartitionHorizon ==
    /\ Range(working_days) \cap Range(call_days) = {}
    /\ Range(working_days) \cup Range(call_days) = start_date..end_date
    /\ Range(working_days)
          = { d \in start_date..end_date : weekday(d) < 5 /\ ~InSeq(d, holidays) }
    /\ Range(call_days) = Range(weekend_days) \cup Range(holidays)
    /\ Range(weekend_days) = { d \in start_date..end_date : weekday(d) >= 5 }
    /\ \A i \in 1..(Len(working_days) - 1) : working_days[i] < working_days[i + 1]

\* holidays on a weekday and on a weekend day are on record, below the most
\* the calendar held, and other weekdays are working days
C18_Witness ==
    /\ \E i, j \in 1..Len(holidays) : weekday(holidays[i]) < 5 /\ weekday(holidays[j]) >= 5
    /\ Len(holidays) < MaxHolidays
    /\ \E d \in CalHolidayDates : InSeq(d, working_days)

\* the number of periods of the type that hold the day
PeriodsHolding(period_type, d) ==
    Cardinality({ i \in 1..Len(CalPeriods) :
                    CalPeriods[i].type = period_type /\ InSeq(d, CalPeriods[i].days) })

\* C27: over all the week keys of the mapping, every working day of the
\* horizon is in exactly one MAIN period and every call day of the horizon in
\* exactly one CALL period, also when a call run carried from a week into the
\* next has 4 days or more
C27_EachDayInOnePeriod ==
    \A d \in start_date..end_date :
        /\ InSeq(d, working_days) => PeriodsHolding("MAIN", d) = 1
        /\ InSeq(d, call_days) => PeriodsHolding("CALL", d) = 1

-----------------------------------------------------------------------------
(* Properties of the solved schedule *)

\* the schedule, the model and the solution are those of the last call
SolvedNow == status \in Solved

\* the MathTasks and the variables of the last call have been created
VariablesCreated == status \in Solved \cup {"INFEASIBLE", "IndexError"}

\* the constraints of the model have been built by the last call (an
\* IndexError of the linkage ends the call before they are)
Built == VariablesCreated /\ ~(status = "IndexError" /\ LinkRaises(math_tasks))

\* the extractor recorded physician p for the MathTask M
Recorded(M, p) ==
    /\ p \in DOMAIN schedule
    /\ \E i \in 1..Len(schedule[p]) :
          schedule[p][i].task = M.name /\ schedule[p][i].days = M.days

\* the physicians recorded for the MathTask M
Assignees(M) == { p \in Range(physicians) : Recorded(M, p) }

\* the groups of a MAIN task: its relevant weeks taken k = number_of_weeks at a
\* time from the first one; the first GroupCount groups are whole, and when
\* weeks remain they form one more, trailing, group
GroupCount(task) == Len(math_tasks[task.name]) \div task.number_of_weeks

AllGroupCount(task) ==
    (Len(math_tasks[task.name]) + task.number_of_weeks - 1) \div task.number_of_weeks

GroupWeeks(task, n) ==
    LET first == (n - 1) * task.number_of_weeks + 1
        last == Min({ n * task.number_of_weeks, Len(math_tasks[task.name]) })
    IN  [i \in 1..(last - first + 1) |-> first + i - 1]

\* the MAIN MathTasks of the n-th group and the MathTasks of the linked call
\* task in the same weeks
GroupMain(task, n) ==
    Flatten([i \in 1..Len(GroupWeeks(task, n)) |->
                math_tasks[task.name][GroupWeeks(task, n)[i]].list])

GroupCall(task, n) ==
    Flatten([i \in 1..Len(GroupWeeks(task, n)) |->
                math_tasks[get_linked_call(task)][GroupWeeks(task, n)[i]].list])

\* p is recorded for every MAIN MathTask of the n-th group
HoldsGroup(task, n, p) ==
    /\ GroupMain(task, n) # << >>
    /\ \A i \in 1..Len(GroupMain(task, n)) : Recorded(GroupMain(task, n)[i], p)

\* the number of linked CALL MathTasks in the weeks of the n-th group that
\* are recorded for p
CallsHeld(task, n, p) ==
    Cardinality({ j \in 1..Len(GroupCall(task, n)) : Recorded(GroupCall(task, n)[j], p) })

LinkedMainTasks == { task \in MainTasks : get_linked_call(task) # "None" }

\* C1: in every solved schedule, no physician has two recorded assignments,
\* of one task or of two, whose days share a date
C1_NoOverlap ==
    SolvedNow =>
        \A p \in DOMAIN schedule : \A i, j \in 1..Len(schedule[p]) :
            i < j => Range(schedule[p][i].days) \cap Range(schedule[p][j].days) = {}

\* a call of generate_schedule that ends with a solved schedule
SolvedStep == calls' # calls /\ status' \in Solved

\* C2: a solved schedule records no physician on a day on which the physician
\* is unavailable, and every variable y[M, p] of a MathTask M holding such a
\* day is 0
C2_NeverWhenUnavailable ==
    [][SolvedStep =>
         /\ \A p \in DOMAIN schedule' : \A i \in 1..Len(schedule'[p]) :
               \A d \in Range(schedule'[p][i].days) : ~is_unavailable(p, d)
         /\ \A M \in MathTaskSet(math_tasks') : \A p \in Range(physicians) :
               (\E d \in Range(M.days) : is_unavailable(p, d)) =>
                   /\ y_var(M, p) \notin y_value'
                   /\ p \in DOMAIN schedule' =>
                         \A i \in 1..Len(schedule'[p]) :
                             ~(schedule'[p][i].task = M.name /\ schedule'[p][i].days = M.days)
      ]_vars

\* a solved schedule with a MathTask that one physician could not take (a
\* single date or a range made the physician unavailable) and another holds
C2_Witness ==
    /\ SolvedNow
    /\ \E kind \in {"date", "range"} : \E M \in MathTaskSet(math_tasks) :
          \E p, q \in Range(physicians) :
              /\ \E i \in 1..Len(unavailability_periods[p]) :
                    /\ unavailability_periods[p][i].kind = kind
                    /\ unavailability_periods[p][i].start <= M.end_date
                    /\ unavailability_periods[p][i].end >= M.start_date
              /\ ~InSeq(p, M.available_physicians)
              /\ y_var(M, q) \in y_value

\* C3: in a solved schedule every MathTask of a mandatory task, in every
\* relevant week, has a recorded physician, and every physician recorded for it
\* is one of its candidates; a MathTask of a mandatory task without a candidate
\* leaves the constraints without a solution, and the call does not end solved
C3_MandatoryCovered ==
    Built =>
        \A M \in { N \in MathTaskSet(math_tasks) : N.mandatory } :
            /\ SolvedNow =>
                  /\ Assignees(M) # {}
                  /\ Assignees(M) \subseteq Range(M.available_physicians)
                  /\ \A p \in Assignees(M) : y_var(M, p) \in y_value
            /\ M.available_physicians = << >> =>
                  /\ ~SolvedNow
                  /\ Solutions(_math_create_constraints(math_tasks), YVars(math_tasks)) = {}

\* a solved schedule in which a mandatory MathTask of the last relevant week
\* had a single candidate, who is recorded for it
C3_Witness ==
    /\ SolvedNow
    /\ \E M \in MathTaskSet(math_tasks) :
          /\ M.mandatory
          /\ M.week_start = math_tasks[M.name][Len(math_tasks[M.name])].week_start
          /\ Len(M.available_physicians) = 1
          /\ Assignees(M) = Range(M.available_physicians)

\* C4: in a solved schedule each weekly MathTask of a mandatory 1-week MAIN
\* task has exactly one recorded physician
C4_ExactlyOneAssignee ==
    SolvedNow =>
        \A M \in MathTaskSet(math_tasks) :
            (M.task_type = "Main" /\ M.mandatory /\ M.number_of_weeks = 1) =>
                Cardinality(Assignees(M)) = 1

\* C5: in a solved schedule, for every MAIN task with number_of_weeks = k,
\* every group of k consecutive relevant weeks counted from the first one and
\* every physician p: p is recorded for all MAIN MathTasks of the group or for
\* none of them
C5_BundleAtomic ==
    SolvedNow =>
        \A task \in MainTasks : \A n \in 1..GroupCount(task) : \A p \in Range(physicians) :
            LET M == GroupMain(task, n)
            IN  \/ \A i \in 1..Len(M) : Recorded(M[i], p)
                \/ \A i \in 1..Len(M) : ~Recorded(M[i], p)

\* a solved schedule with a 2-week bundle that one physician holds whole and
\* the other does not hold at all
C5_Witness ==
    /\ SolvedNow
    /\ \E task \in MainTasks : \E n \in 1..GroupCount(task) : \E p, q \in Range(physicians) :
          /\ task.number_of_weeks = 2
          /\ Len(GroupMain(task, n)) = 2
          /\ \A i \in 1..2 : Recorded(GroupMain(task, n)[i], p) /\ ~Recorded(GroupMain(task, n)[i], q)

C7_CallAfterFirstMain ==
    SolvedNow =>
        \A task \in LinkedMainTasks : \A n \in 1..AllGroupCount(task) :
            GroupMain(task, n) # << >> =>
                \A j \in 1..Len(GroupCall(task, n)) :
                    LET first_main == GroupMain(task, n)[1]
                        call == GroupCall(task, n)[j]
                    IN  /\ Assignees(call) # {} => call.start_date > first_main.end_date
                        /\ call.start_date <= first_main.end_date =>
                              \A p \in Range(physicians) : y_var(call, p) \notin y_value

\* the 2-week bundles of the linked MAIN tasks that reach the linkage
\* constraints and whose last MathTask ends on a Friday
FridayBundles ==
    UNION { { b \in Range(Bundles(math_tasks, task)) :
                b.M # << >> /\ weekday(b.M[Len(b.M)].end_date) = 4 } :
            task \in { t \in LinkedMainTasks : t.number_of_weeks = 2 } }

C9_TrailingBundleBound ==
    Built =>
        \A task \in MainTasks :
            LET n == AllGroupCount(task)
                M == GroupMain(task, n)
            IN  (n > GroupCount(task) /\ M # << >>) =>
                    (create_math_tasks_bundle_constraints(M)
                     \cup (IF get_linked_call(task) # "None"
                           THEN limit_number_of_call_math_tasks(GroupCall(task, n))
                                \cup link_main_and_call_math_tasks(M, GroupCall(task, n))
                           ELSE {}))
                        \subseteq _math_create_constraints(math_tasks)

\* C10: a call of generate_schedule with a MathTask of a mandatory MAIN task
\* for which no physician is available ends with the infeasible status and
\* leaves the schedule as it was
C10_InfeasibleNotRaised ==
    [][(/\ calls' # calls
        /\ \E M \in MathTaskSet(math_tasks') :
              M.task_type = "Main" /\ M.mandatory /\ M.available_physicians = << >>)
         => (status' = "INFEASIBLE" /\ schedule' = schedule)
      ]_vars

\* the (physician, task, days) triples of the y variables set to 1
ChosenSet(mt, y) ==
    UNION { { << p, M.name, M.days >> : p \in { q \in Range(physicians) : y_var(M, q) \in y } } :
            M \in MathTaskSet(mt) }

\* C11: a call of generate_schedule that ends with a solved status leaves in
\* the schedule exactly the assignments of its own solution, each once, and
\* nothing of the schedule before it; a call that ends in any other way
\* leaves the schedule as it was
C11_ScheduleReplaced ==
    [][calls' # calls =>
         IF status' \in Solved
         THEN /\ UNION { { << p, schedule'[p][i].task, schedule'[p][i].days >> :
                            i \in 1..Len(schedule'[p]) } : p \in DOMAIN schedule' }
                    = ChosenSet(math_tasks', y_value')
              /\ \A p \in DOMAIN schedule' : \A i, j \in 1..Len(schedule'[p]) :
                    i < j => schedule'[p][i] # schedule'[p][j]
         ELSE schedule' = schedule
      ]_vars

\* a second call has solved after a first one, with an unavailability or a
\* holiday on record
C11_Witness ==
    /\ calls = 2
    /\ status \in Solved
    /\ schedule # << >>
    /\ edits > 0

\* C15: for every task, the MathTasks of the model taken week key by week
\* key are in time order and do not overlap: each starts after the end of
\* the one before it
C15_MathTasksTimeOrdered ==
    Built =>
        \A name \in TaskNames :
            LET all == AllMathTasks(math_tasks, name)
            IN  \A i \in 1..(Len(all) - 1) : all[i].end_date < all[i + 1].start_date

\* C17: with a task of a DISCONTINUOUS category among the tasks, a call of
\* generate_schedule ends with the unsupported-category error, without a
\* solve and with the schedule as it was
C17_DiscontinuousRejected ==
    [][(calls' # calls /\ \E i \in 1..Len(tasks) : IsDiscontinuous(tasks[i]))
         => /\ status' = "NotImplementedError"
            /\ schedule' = schedule
            /\ y_value' = y_value
      ]_vars

-----------------------------------------------------------------------------
(* Properties of the linkage *)

\* the name is that of a task of the type
NamesTaskOfType(name, task_type) ==
    \E i \in 1..Len(tasks) : tasks[i].name = name /\ tasks[i].type = task_type

\* every key of the link map names a MAIN task and every value a CALL task
TypedLinks ==
    \A n \in DOMAIN links : NamesTaskOfType(n, "Main") /\ NamesTaskOfType(links[n], "Call")

\* C21: after any sequence of link_tasks, unlink_task and remove_task calls
\* every key of the link map is the name of a MAIN task and every value the
\* name of a CALL task, a MAIN name having one CALL name at most (the map is
\* a function); a link_tasks call whose first task is not MAIN or whose
\* second is not CALL raises and leaves the map as it was; remove_task(t)
\* leaves no entry with t's name as its key or as its value
C21_LinksTyped ==
    /\ []TypedLinks
    /\ [][/\ \A main_task, call_task \in Range(tasks) :
                (link_tasks(main_task, call_task) /\ ~(main_task.type = "Main" /\ call_task.type = "Call")) =>
                    link_error' = "ValueError" /\ links' = links
          /\ \A task \in Range(tasks) :
                remove_task(task) =>
                    /\ task.name \notin DOMAIN links'
                    /\ \A n \in DOMAIN links' : links'[n] # task.name]_vars

\* two MAIN tasks share a CALL task, and the last link_tasks call was rejected
C21_Witness ==
    /\ "CTU_A" \in DOMAIN links
    /\ "CTU_B" \in DOMAIN links
    /\ links["CTU_A"] = links["CTU_B"]
    /\ link_error = "ValueError"

-----------------------------------------------------------------------------
(* Properties of the availability oracle *)

\* the dates is_unavailable is asked about
CheckDates == 0 - 1 .. 21

\* is_unavailable where the map is the given one
IsUnavailableIn(map, name, check_date) ==
    /\ name \in DOMAIN map
    /\ \E i \in 1..Len(map[name]) :
          IF map[name][i].kind = "date" THEN check_date = map[name][i].start
          ELSE map[name][i].start <= check_date /\ check_date <= map[name][i].end

\* C22: set_unavailability_periods with a map that names a physician who is
\* not registered raises and leaves the stored map as it was;
\* add_unavailability for a physician who is not registered, or with a period
\* that is neither a date nor a pair of dates, raises and changes the answer
\* of is_unavailable for no physician and no date
C22_RejectedLeavesAnswers ==
    [][/\ \A periods_map \in UnavailabilityMaps :
             (set_unavailability_periods(periods_map)
                 /\ \E n \in DOMAIN periods_map : ~InSeq(n, physicians)) =>
                 /\ unavailability_error' = "ValueError"
                 /\ unavailability_periods' = unavailability_periods
       /\ \A physician_name \in UnavailabilityNames, period \in UnavailabilityInputs :
             (add_unavailability(physician_name, period)
                 /\ (~InSeq(physician_name, physicians) \/ ~WellFormed(period))) =>
                 /\ unavailability_error' = "ValueError"
                 /\ \A n \in UnavailabilityNames, check_date \in CheckDates :
                       IsUnavailableIn(unavailability_periods', n, check_date)
                           <=> IsUnavailableIn(unavailability_periods, n, check_date)]_vars

\* a malformed period was rejected for a physician who had no list in the
\* stored map, which has one now, and another physician is unavailable
C22_Witness ==
    /\ unavailability_error = "ValueError"
    /\ "Jane Smith" \in DOMAIN unavailability_periods
    /\ unavailability_periods["Jane Smith"] = << >>
    /\ "John Doe" \in DOMAIN unavailability_periods
    /\ unavailability_periods["John Doe"] = << DateRange(0, 6), OnDate(8) >>
    /\ is_unavailable("John Doe", 8)

-----------------------------------------------------------------------------
(* Properties of the calendar document *)

\* the calendar as it is
ThisCalendar ==
    [start_date |-> start_date, end_date |-> end_date, region |-> region, holidays |-> holidays,
     working_days |-> working_days, weekend_days |-> weekend_days, call_days |-> call_days]

\* the calendar a document describes
Described(calendar_state) ==
    [start_date |-> fromisoformat(calendar_state.start_date),
     end_date |-> fromisoformat(calendar_state.end_date),
     region |-> calendar_state.region,
     holidays |-> fromisoformats(calendar_state.holidays),
     working_days |-> fromisoformats(calendar_state.working_days),
     weekend_days |-> fromisoformats(calendar_state.weekend_days),
     call_days |-> fromisoformats(calendar_state.call_days)]

\* the loaded calendar is the given one, field by field
SameCalendar(loaded, c) ==
    /\ loaded.raises = "None"
    /\ \A f \in DOMAIN c : loaded[f] = c[f]
    /\ determine_periods(loaded) = determine_periods(c)

\* C23: for every calendar reached by add_holiday and remove_holiday, also one
\* whose holiday list is empty, the document save_calendar writes describes
\* the calendar, and loading it gives a calendar with the same start_date,
\* end_date, region, holidays, working_days, weekend_days and call_days, on
\* which determine_periods returns the same mapping
C23_SaveLoadRoundTrip ==
    [][/\ save_calendar => Described(calendar_file'[1]) = ThisCalendar
       /\ load_calendar => SameCalendar(loaded_calendar'[1], Described(calendar_file[1]))]_vars

-----------------------------------------------------------------------------
(* Properties of the segmenter's calls *)

-----------------------------------------------------------------------------
(* Properties of the sweep *)

\* the intervals of the two MathTasks intersect
Intersect(a, b) ==
    Max({a.start_date, b.start_date}) <= Min({a.end_date, b.end_date})

\* the constraints a check of every pair of the two lists adds
AllPairsConstraints(A, B) ==
    { AtMostOne({ y_var(A[i], p), y_var(B[j], p) }) :
        << i, j, p >> \in { x \in (1..Len(A)) \X (1..Len(B)) \X Range(physicians) :
                              Intersect(A[x[1]], B[x[2]]) } }

\* C25: for two lists of MathTasks that are each time-ordered and do not
\* overlap within themselves, the sweep adds y[a,p] + y[b,p] <= 1 for every
\* physician p and for exactly the pairs (a, b) whose intervals intersect,
\* those with equal end dates too, as a check of all the pairs would, and it
\* goes through its loop |A| + |B| times at most
C25_SweepIsAllPairs ==
    sweep # << >> /\ sweep.called =>
        /\ sweep.constraints = AllPairsConstraints(sweep.A, sweep.B)
        /\ sweep.steps <= Len(sweep.A) + Len(sweep.B)

\* the sweep was called on two lists of three MathTasks of which two end on
\* the same day, one of A intersects two of B, and constraints were added
C25_Witness ==
    /\ sweep # << >>
    /\ sweep.called
    /\ Len(sweep.A) = 3
    /\ Len(sweep.B) = 3
    /\ \E i, j \in 1..3 : /\ sweep.A[i].end_date = sweep.B[j].end_date
                          /\ sweep.A[i].start_date # sweep.B[j].start_date
    /\ \E i, j \in 1..3 : /\ Intersect(sweep.A[i], sweep.B[j])
                          /\ j < 3
                          /\ Intersect(sweep.A[i], sweep.B[j + 1])
    /\ sweep.constraints # {}

-----------------------------------------------------------------------------
(* Properties of the model construction *)

\* a call of generate_schedule whose tasks are all of a supported category
BuildStep == calls' # calls /\ status' # "NotImplementedError"

\* C28: the model construction of generate_schedule ends without an
\* exception, also when a relevant week has no MAIN period and when the first
\* task has no MathTask or no available physician in the first week: every
\* bundle handed to the linked-call constraints holds a MAIN MathTask, and the
\* objective refers to an existing variable
C28_ConstructionCompletes ==
    [][BuildStep =>
          /\ status' \in Solved \cup { "INFEASIBLE" }
          /\ ~LinkRaises(math_tasks')
          /\ ObjectiveVar(math_tasks').raises = "None"]_vars


\* C26: every full bundle of a MAIN task with number_of_weeks = k is made of
\* exactly k consecutive MathTasks of the task's time-ordered MathTasks, also
\* when a mid-week holiday splits a week into two MAIN periods and when a
\* week has no MAIN period
C26_FullBundleOfKMathTasks ==
    VariablesCreated =>
        \A task \in MainTasks : \A b \in Range(Bundles(math_tasks, task)) :
            /\ Len(b.M) = task.number_of_weeks
            /\ \E first \in 1..(Len(AllMathTasks(math_tasks, task.name)) + 1) :
                  b.M = SubSeq(AllMathTasks(math_tasks, task.name), first,
                               first + task.number_of_weeks - 1)

-----------------------------------------------------------------------------
(* Properties of the shared call and of the week offset *)

\* two MAIN tasks with the same number_of_weeks are linked to the same CALL task
SharedCall ==
    \E a, b \in LinkedMainTasks :
        /\ a.name # b.name
        /\ a.number_of_weeks = b.number_of_weeks
        /\ get_linked_call(a) = get_linked_call(b)

\* every physician is available on every day
AlwaysAvailable ==
    \A p \in Range(physicians), d \in start_date..end_date : ~is_unavailable(p, d)

\* C29: with two mandatory MAIN tasks of the same number_of_weeks linked to
\* one CALL task and physicians who are always available, the constraints of
\* the model admit a solution in which every bundle of both MAIN tasks is
\* assigned: the call ends with a solved schedule in which every MAIN
\* MathTask has a physician
C29_SharedCallSolvable ==
    [][(calls' # calls /\ SharedCall /\ AlwaysAvailable) =>
          /\ status' \in Solved
          /\ \A task \in LinkedMainTasks :
                \A i \in 1..Len(AllMathTasks(math_tasks', task.name)) :
                    \E p \in Range(physicians) :
                        y_var(AllMathTasks(math_tasks', task.name)[i], p) \in y_value']_vars

\* the weeks of the bundles of a MAIN task, bundle after bundle
BundleWeeks(task) ==
    [b \in 1..Len(Bundles(math_tasks, task)) |-> Bundles(math_tasks, task)[b].weeks]

\* C30: the bundles of a MAIN task depend on its number_of_weeks and on the
\* relevant weeks alone: two MAIN tasks with the same number_of_weeks and
\* different week_offset have their bundles over the same weeks, the first
\* bundle of each starting in the first relevant week
C30_OffsetDoesNotShiftBundles ==
    VariablesCreated =>
        \A a, b \in MainTasks :
            a.number_of_weeks = b.number_of_weeks =>
                /\ BundleWeeks(a) = BundleWeeks(b)
                /\ BundleWeeks(a) # << >> => math_tasks[a.name][1].week_start \in BundleWeeks(a)[1]

\* a model was built for CTU_A (offset 0) and CTU_B (offset 1), both of 2
\* weeks, and each has a bundle
C30_Witness ==
    /\ VariablesCreated
    /\ \E a, b \in MainTasks :
          /\ a.number_of_weeks = b.number_of_weeks
          /\ a.week_offset = 0
          /\ b.week_offset = 1
          /\ BundleWeeks(a) # << >>
          /\ BundleWeeks(b) # << >>

====
